---- MODULE Spec2Model ----
(***************************************************************************)
(* Model of the fixed-capacity byte ring buffer of Mordor/src/main.rs.     *)
(*                                                                         *)
(* The struct RingBuffer is the record rb; its methods are operators that  *)
(* take the record (self) and return the record after the call together    *)
(* with the call's result.  The public calls are the actions.  push and    *)
(* pop are one step each; extend and drain are loops over push and pop,    *)
(* one loop iteration per step, so that the states between two iterations  *)
(* are states of the model.  The program is single-threaded: while a loop  *)
(* runs (pc = "extend" or "drain") no other call can start.                *)
(*                                                                         *)
(* A call that returns leaves the model in pc = "returned", where op, arg, *)
(* ret and old record the call, its argument, its result and the buffer it *)
(* started from; Resume is the caller going on: the record of the call and *)
(* the call's locals are dropped and the next call can start.              *)
(*                                                                         *)
(* The caller is either any caller, which makes any call with any argument *)
(* (Spec), or has turned to a script of calls, as the tests and main are   *)
(* (SpecScript); a scripted caller keeps the results its calls returned.   *)
(***************************************************************************)
EXTENDS Integers, Sequences, FiniteSets

\* Bounds of the model.
MaxCapacity == 3
MaxByte == 1

\* Longest slice handed to extend and largest count handed to drain: one more
\* than the largest capacity, so that a call can ask for more than fits.
MaxData == MaxCapacity + 1
MaxCount == MaxCapacity + 1

\* u8 values, cut down to 0..MaxByte.
Bytes == 0 .. MaxByte

\* Option<u8>: None is the empty sequence, Some(v) the one-element sequence.
None == << >>
Some(v) == << v >>

\* &[u8] arguments of extend.
RECURSIVE SeqsUpTo(_)
SeqsUpTo(n) ==
    IF n = 0 THEN {<< >>}
    ELSE LET shorter == SeqsUpTo(n - 1)
         IN  shorter \cup {Append(s, b) : s \in {t \in shorter : Len(t) = n - 1}, b \in Bytes}
Slices == SeqsUpTo(MaxData)

VARIABLES
    rb,      \* the RingBuffer: [buffer, capacity, head, tail, size]
    pc,      \* "idle" | "extend" | "drain" | "returned" | "aborted"
    op,      \* the call running or just returned: "new" "is_empty" "is_full"
             \* "len" "push" "pop" "extend" "drain"
    arg,     \* its argument
    ret,     \* the value the call returned
    old,     \* rb when the call started
    i,       \* extend, drain: loop iterations started so far
    count,   \* extend: the local count
    result,  \* drain: the local result
    Q,       \* abstract bounded FIFO queue run beside the buffer
    Qold,    \* Q when the call started
    run,     \* << the bytes pushed, one push call each, since the buffer was
             \* last empty >>, or << >> once another call has come between
    caller   \* the code that calls the buffer: any caller, or a script

vars == << rb, pc, op, arg, ret, old, i, count, result, Q, Qold, run, caller >>

----------------------------------------------------------------------------
\* The struct and its methods.

\* Stands for "no buffer was built" after new(0) has panicked.
NoBuffer == [buffer |-> << >>, capacity |-> 0, head |-> 0, tail |-> 0, size |-> 0]

\* new with a slip: the assert is missing.
new_never_panics(capacity) == FALSE

\* assert!(capacity > 0) of new.
new_panics(capacity) == ~(capacity > 0)

new(capacity) ==
    [buffer   |-> [k \in 0 .. capacity - 1 |-> None],
     capacity |-> capacity,
     head     |-> 0,
     tail     |-> 0,
     size     |-> 0]

\* is_empty with a slip: emptiness is read off the indices.
is_empty_by_indices(self) == self.head = self.tail

is_empty(self) == self.size = 0

is_full(self) == self.size = self.capacity

len(self) == self.size

\* An index outside the Vec makes the indexing expression panic.
in_bounds(self, idx) == idx \in DOMAIN self.buffer

\* push with one slip each; the properties below are tried against them.
\* Without the is_full test.
push_no_full_check(self, value) ==
    IF ~in_bounds(self, self.tail) THEN [self |-> self, res |-> "Panic"]
    ELSE [self |-> [self EXCEPT !.buffer[self.tail] = Some(value),
                                !.tail = (self.tail + 1) % self.capacity,
                                !.size = self.size + 1],
          res |-> "Ok"]

\* A full buffer refuses the byte but has already stored it.
push_full_overwrites(self, value) ==
    IF ~in_bounds(self, self.tail) THEN [self |-> self, res |-> "Panic"]
    ELSE IF is_full(self)
    THEN [self |-> [self EXCEPT !.buffer[self.tail] = Some(value)], res |-> "Err"]
    ELSE [self |-> [self EXCEPT !.buffer[self.tail] = Some(value),
                                !.tail = (self.tail + 1) % self.capacity,
                                !.size = self.size + 1],
          res |-> "Ok"]

\* tail advances without wrapping.
push_no_wrap(self, value) ==
    IF is_full(self) THEN [self |-> self, res |-> "Err"]
    ELSE IF ~in_bounds(self, self.tail) THEN [self |-> self, res |-> "Panic"]
    ELSE [self |-> [self EXCEPT !.buffer[self.tail] = Some(value),
                                !.tail = self.tail + 1,
                                !.size = self.size + 1],
          res |-> "Ok"]

\* The byte goes to slot size, which is the tail only while head is 0.
push_at_size(self, value) ==
    IF is_full(self) THEN [self |-> self, res |-> "Err"]
    ELSE IF ~in_bounds(self, self.size) THEN [self |-> self, res |-> "Panic"]
    ELSE [self |-> [self EXCEPT !.buffer[self.size] = Some(value),
                                !.tail = (self.tail + 1) % self.capacity,
                                !.size = self.size + 1],
          res |-> "Ok"]

\* Result: "Ok" is Ok(()), "Err" is Err(message), "Panic" an abort of the call.
push(self, value) ==
    IF is_full(self) THEN [self |-> self, res |-> "Err"]
    ELSE IF ~in_bounds(self, self.tail) THEN [self |-> self, res |-> "Panic"]
    ELSE [self |-> [self EXCEPT !.buffer[self.tail] = Some(value),
                                !.tail = (self.tail + 1) % self.capacity,
                                !.size = self.size + 1],
          res |-> "Ok"]

\* pop with one slip each.
\* The newest byte is taken, from the slot before tail.
pop_newest(self) ==
    IF is_empty(self) THEN [self |-> self, value |-> None, panic |-> FALSE]
    ELSE LET last == (self.tail + self.capacity - 1) % self.capacity IN
         IF ~in_bounds(self, last) THEN [self |-> self, value |-> None, panic |-> TRUE]
         ELSE [self |-> [self EXCEPT !.buffer[last] = None,
                                     !.tail = last,
                                     !.size = self.size - 1],
               value |-> self.buffer[last],
               panic |-> FALSE]

\* Without the is_empty test.
pop_no_empty_check(self) ==
    IF ~in_bounds(self, self.head) THEN [self |-> self, value |-> None, panic |-> TRUE]
    ELSE [self |-> [self EXCEPT !.buffer[self.head] = None,
                                !.head = (self.head + 1) % self.capacity,
                                !.size = self.size - 1],
          value |-> self.buffer[self.head],
          panic |-> FALSE]

\* The slot is read, not taken: the byte stays in it.
pop_no_clear(self) ==
    IF is_empty(self) THEN [self |-> self, value |-> None, panic |-> FALSE]
    ELSE IF ~in_bounds(self, self.head) THEN [self |-> self, value |-> None, panic |-> TRUE]
    ELSE [self |-> [self EXCEPT !.head = (self.head + 1) % self.capacity,
                                !.size = self.size - 1],
          value |-> self.buffer[self.head],
          panic |-> FALSE]

\* head advances without wrapping.
pop_no_wrap(self) ==
    IF is_empty(self) THEN [self |-> self, value |-> None, panic |-> FALSE]
    ELSE IF ~in_bounds(self, self.head) THEN [self |-> self, value |-> None, panic |-> TRUE]
    ELSE [self |-> [self EXCEPT !.buffer[self.head] = None,
                                !.head = self.head + 1,
                                !.size = self.size - 1],
          value |-> self.buffer[self.head],
          panic |-> FALSE]

\* value is what take() found in the slot at head; size -= 1 on size 0 cannot
\* be reached behind the is_empty test.
pop(self) ==
    IF is_empty(self) THEN [self |-> self, value |-> None, panic |-> FALSE]
    ELSE IF ~in_bounds(self, self.head) THEN [self |-> self, value |-> None, panic |-> TRUE]
    ELSE [self |-> [self EXCEPT !.buffer[self.head] = None,
                                !.head = (self.head + 1) % self.capacity,
                                !.size = self.size - 1],
          value |-> self.buffer[self.head],
          panic |-> FALSE]

----------------------------------------------------------------------------
\* The abstract queue: push appends when there is room, pop removes the head.

AbsPush(q, cap, v) == IF Len(q) < cap THEN Append(q, v) ELSE q

AbsPop(q) == IF q = << >> THEN q ELSE Tail(q)

\* The run of pushes into an empty buffer: it goes on with a push while it is
\* no longer than the capacity, starts again when a call leaves the buffer
\* empty, and is over when a call that can change the buffer, other than push,
\* comes between.
NoRun == << >>
EmptyRun == << << >> >>

RunAfterPush(r, cap, v) ==
    IF r # NoRun /\ Len(r[1]) < cap THEN << Append(r[1], v) >> ELSE NoRun

RunAfterCall(r, call, self) ==
    IF is_empty(self) THEN EmptyRun
    ELSE IF call \in {"push", "is_empty", "is_full", "len"} THEN r
    ELSE NoRun

----------------------------------------------------------------------------
\* The caller.  todo is the calls a script has still to make, << name, arg >>
\* each; outs the results of the calls it has made; start the buffer and k the
\* parameter the script began with.

AnyCaller ==
    [any |-> TRUE, name |-> "any", todo |-> << >>, outs |-> << >>,
     start |-> NoBuffer, k |-> 0]

\* The arguments the caller may now pass to call: any of all, or the one the
\* script says, if call is its next call.
Args(call, all) ==
    IF caller.any THEN all
    ELSE IF caller.todo # << >> /\ caller.todo[1][1] = call THEN {caller.todo[1][2]}
    ELSE {}

\* The caller once it has made its next call, and once that call has returned r.
Called == IF caller.any THEN caller ELSE [caller EXCEPT !.todo = Tail(@)]

Got(r) == IF caller.any THEN caller ELSE [caller EXCEPT !.outs = Append(@, r)]

----------------------------------------------------------------------------
\* The calls.

\* let rb = RingBuffer::new(capacity)
Init ==
    \E capacity \in 0 .. MaxCapacity :
        /\ op = "new"
        /\ arg = capacity
        /\ IF new_panics(capacity)
           THEN pc = "aborted" /\ rb = NoBuffer /\ ret = "Panic"
           ELSE pc = "returned" /\ rb = new(capacity) /\ ret = "Ok"
        /\ run = NoRun
        /\ caller = AnyCaller
        /\ old = NoBuffer
        /\ Q = << >>
        /\ Qold = << >>
        /\ i = 0
        /\ count = 0
        /\ result = << >>

\* The caller goes on after a call has returned.
Resume ==
    /\ pc = "returned"
    /\ pc' = "idle"
    /\ op' = "none"
    /\ arg' = 0
    /\ ret' = 0
    /\ old' = NoBuffer
    /\ Qold' = << >>
    /\ i' = 0
    /\ count' = 0
    /\ result' = << >>
    /\ run' = RunAfterCall(run, op, rb)
    /\ caller' = IF op = "new" THEN caller ELSE Got(ret)
    /\ UNCHANGED << rb, Q >>

\* The queries take &self: they return and leave the buffer alone.
IsEmpty ==
    /\ pc = "idle"
    /\ Args("is_empty", {0}) # {}
    /\ op' = "is_empty"
    /\ arg' = 0
    /\ old' = rb
    /\ ret' = is_empty(rb)
    /\ pc' = "returned"
    /\ Qold' = Q
    /\ caller' = Called
    /\ UNCHANGED << rb, i, count, result, Q, run >>

IsFull ==
    /\ pc = "idle"
    /\ Args("is_full", {0}) # {}
    /\ op' = "is_full"
    /\ arg' = 0
    /\ old' = rb
    /\ ret' = is_full(rb)
    /\ pc' = "returned"
    /\ Qold' = Q
    /\ caller' = Called
    /\ UNCHANGED << rb, i, count, result, Q, run >>

GetLen ==
    /\ pc = "idle"
    /\ Args("len", {0}) # {}
    /\ op' = "len"
    /\ arg' = 0
    /\ old' = rb
    /\ ret' = len(rb)
    /\ pc' = "returned"
    /\ Qold' = Q
    /\ caller' = Called
    /\ UNCHANGED << rb, i, count, result, Q, run >>

Push ==
    /\ pc = "idle"
    /\ \E value \in Args("push", Bytes) :
        LET r == push(rb, value) IN
        /\ op' = "push"
        /\ arg' = value
        /\ old' = rb
        /\ rb' = r.self
        /\ ret' = r.res
        /\ pc' = IF r.res = "Panic" THEN "aborted" ELSE "returned"
        /\ Qold' = Q
        /\ Q' = AbsPush(Q, rb.capacity, value)
        /\ run' = RunAfterPush(run, rb.capacity, value)
    /\ caller' = Called
    /\ UNCHANGED << i, count, result >>

Pop ==
    /\ pc = "idle"
    /\ Args("pop", {0}) # {}
    /\ LET r == pop(rb) IN
        /\ op' = "pop"
        /\ arg' = 0
        /\ old' = rb
        /\ rb' = r.self
        /\ ret' = IF r.panic THEN "Panic" ELSE r.value
        /\ pc' = IF r.panic THEN "aborted" ELSE "returned"
        /\ Qold' = Q
        /\ Q' = AbsPop(Q)
    /\ caller' = Called
    /\ UNCHANGED << i, count, result, run >>

\* extend(data): let mut count = 0, then the loop.
Extend ==
    /\ pc = "idle"
    /\ \E data \in Args("extend", Slices) :
        /\ op' = "extend"
        /\ arg' = data
    /\ old' = rb
    /\ Qold' = Q
    /\ pc' = "extend"
    /\ i' = 0
    /\ count' = 0
    /\ caller' = Called
    /\ UNCHANGED << rb, ret, result, Q, run >>

\* ExtendStep with a slip: count += 1 stands before the test of the push.
ExtendStep_counts_attempts ==
    /\ pc = "extend"
    /\ i < Len(arg)
    /\ LET byte == arg[i + 1]
           r == push(rb, byte) IN
        /\ rb' = r.self
        /\ Q' = AbsPush(Q, rb.capacity, byte)
        /\ i' = i + 1
        /\ count' = count + 1
        /\ IF r.res = "Ok"
           THEN pc' = "extend" /\ ret' = ret
           ELSE IF r.res = "Err"
           THEN pc' = "returned" /\ ret' = count + 1
           ELSE pc' = "aborted" /\ ret' = "Panic"
    /\ UNCHANGED << op, arg, old, result, Qold, run, caller >>

\* ExtendStep with a slip: the break is missing, the loop goes on to the next
\* byte after a refused push.
ExtendStep_no_break ==
    /\ pc = "extend"
    /\ i < Len(arg)
    /\ LET byte == arg[i + 1]
           r == push(rb, byte) IN
        /\ rb' = r.self
        /\ Q' = AbsPush(Q, rb.capacity, byte)
        /\ i' = i + 1
        /\ IF r.res = "Ok"
           THEN count' = count + 1 /\ pc' = "extend" /\ ret' = ret
           ELSE IF r.res = "Err"
           THEN count' = count /\ pc' = "extend" /\ ret' = ret
           ELSE count' = count /\ pc' = "aborted" /\ ret' = "Panic"
    /\ UNCHANGED << op, arg, old, result, Qold, run, caller >>

\* One iteration of "for &byte in data": a push; on Err the loop breaks and
\* the call returns count.
ExtendStep ==
    /\ pc = "extend"
    /\ i < Len(arg)
    /\ LET byte == arg[i + 1]
           r == push(rb, byte) IN
        /\ rb' = r.self
        /\ Q' = AbsPush(Q, rb.capacity, byte)
        /\ i' = i + 1
        /\ IF r.res = "Ok"
           THEN count' = count + 1 /\ pc' = "extend" /\ ret' = ret
           ELSE IF r.res = "Err"
           THEN count' = count /\ pc' = "returned" /\ ret' = count
           ELSE count' = count /\ pc' = "aborted" /\ ret' = "Panic"
    /\ UNCHANGED << op, arg, old, result, Qold, run, caller >>

\* The slice is exhausted: the call returns count.
ExtendReturn ==
    /\ pc = "extend"
    /\ i = Len(arg)
    /\ pc' = "returned"
    /\ ret' = count
    /\ UNCHANGED << rb, op, arg, old, i, count, result, Q, Qold, run, caller >>

\* drain(count): let mut result = Vec::new(), then the loop.
Drain ==
    /\ pc = "idle"
    /\ \E n \in Args("drain", 0 .. MaxCount) :
        /\ op' = "drain"
        /\ arg' = n
    /\ old' = rb
    /\ Qold' = Q
    /\ pc' = "drain"
    /\ i' = 0
    /\ result' = << >>
    /\ caller' = Called
    /\ UNCHANGED << rb, ret, count, Q, run >>

\* DrainStep with a slip: the byte goes to the front of result.
DrainStep_prepends ==
    /\ pc = "drain"
    /\ i < arg
    /\ LET r == pop(rb) IN
        /\ rb' = r.self
        /\ Q' = AbsPop(Q)
        /\ i' = i + 1
        /\ IF r.panic
           THEN result' = result /\ pc' = "aborted" /\ ret' = "Panic"
           ELSE IF r.value # None
           THEN result' = << r.value[1] >> \o result /\ pc' = "drain" /\ ret' = ret
           ELSE result' = result /\ pc' = "returned" /\ ret' = result
    /\ UNCHANGED << op, arg, old, count, Qold, run, caller >>

\* One iteration of "for _ in 0..count": a pop; Some(byte) is appended to
\* result, on None the loop breaks and the call returns result.
DrainStep ==
    /\ pc = "drain"
    /\ i < arg
    /\ LET r == pop(rb) IN
        /\ rb' = r.self
        /\ Q' = AbsPop(Q)
        /\ i' = i + 1
        /\ IF r.panic
           THEN result' = result /\ pc' = "aborted" /\ ret' = "Panic"
           ELSE IF r.value # None
           THEN result' = Append(result, r.value[1]) /\ pc' = "drain" /\ ret' = ret
           ELSE result' = result /\ pc' = "returned" /\ ret' = result
    /\ UNCHANGED << op, arg, old, count, Qold, run, caller >>

\* The range is exhausted: the call returns result.
DrainReturn ==
    /\ pc = "drain"
    /\ i = arg
    /\ pc' = "returned"
    /\ ret' = result
    /\ UNCHANGED << rb, op, arg, old, i, count, result, Q, Qold, run, caller >>

Next ==
    \/ Resume
    \/ IsEmpty
    \/ IsFull
    \/ GetLen
    \/ Push
    \/ Pop
    \/ Extend
    \/ ExtendStep
    \/ ExtendReturn
    \/ Drain
    \/ DrainStep
    \/ DrainReturn

Spec == Init /\ [][Next]_vars

\* A call that has started runs on: the loops of extend and drain are not
\* suspended.
RunOn == ExtendStep \/ ExtendReturn \/ DrainStep \/ DrainReturn

Running == WF_vars(RunOn)

FairSpec == Spec /\ Running

----------------------------------------------------------------------------
\* Scripted callers.

\* The sequence a, a+1, ..., b.
Range(a, b) == [j \in 1 .. (b - a + 1) |-> a + j - 1]

\* tests::test_wrap_around for a capacity n and a count k: fill the buffer,
\* drain k, extend by k new bytes, drain n.  The bytes are 1, 2, ... in the
\* order in which they go in.
WrapScript(n, k) ==
    << << "extend", Range(1, n) >>,
       << "drain", k >>,
       << "extend", Range(n + 1, n + k) >>,
       << "drain", n >> >>

\* The caller turns to the wrap-around script on an empty buffer, whatever
\* calls have led to it.
StartWrap ==
    /\ pc = "idle"
    /\ caller.any
    /\ is_empty(rb)
    /\ \E k \in 0 .. rb.capacity :
        caller' = [any |-> FALSE, name |-> "wrap", todo |-> WrapScript(rb.capacity, k),
                   outs |-> << >>, start |-> rb, k |-> k]
    /\ UNCHANGED << rb, pc, op, arg, ret, old, i, count, result, Q, Qold, run >>

\* tests::test_edge_cases, gone through twice: push, a push that is refused,
\* pop, with the bytes 1, 2 and then 3, 4.
EdgeScript ==
    << << "push", 1 >>, << "push", 2 >>, << "pop", 0 >>,
       << "push", 3 >>, << "push", 4 >>, << "pop", 0 >> >>

\* The caller turns to it on an empty buffer of capacity 1.
StartEdge ==
    /\ pc = "idle"
    /\ caller.any
    /\ rb.capacity = 1
    /\ is_empty(rb)
    /\ caller' = [any |-> FALSE, name |-> "edge", todo |-> EdgeScript,
                  outs |-> << >>, start |-> rb, k |-> 0]
    /\ UNCHANGED << rb, pc, op, arg, ret, old, i, count, result, Q, Qold, run >>

\* Two bytes that no call of any caller has pushed.
RefusedByte == MaxByte + 1
NewByte == MaxByte + 2

\* A producer held back by a full buffer of capacity n: a push that is
\* refused, one pop, the push again with a new byte, then n pops.
RecoveryScript(n) ==
    << << "push", RefusedByte >>, << "pop", 0 >>, << "push", NewByte >> >>
        \o [j \in 1 .. n |-> << "pop", 0 >>]

\* The caller turns to it on a full buffer, whatever calls have filled it.
StartRecovery ==
    /\ pc = "idle"
    /\ caller.any
    /\ is_full(rb)
    /\ caller' = [any |-> FALSE, name |-> "recovery", todo |-> RecoveryScript(rb.capacity),
                  outs |-> << >>, start |-> rb, k |-> 0]
    /\ UNCHANGED << rb, pc, op, arg, ret, old, i, count, result, Q, Qold, run >>

NextScript ==
    \/ Next
    \/ StartWrap
    \/ StartEdge
    \/ StartRecovery

SpecScript == Init /\ [][NextScript]_vars

----------------------------------------------------------------------------
\* What the claims speak of.

Min(a, b) == IF a <= b THEN a ELSE b

\* The slots at head, head+1, ..., head+size-1 (mod capacity), oldest first.
Slots(self) ==
    [k \in 1 .. self.size |-> self.buffer[(self.head + k - 1) % self.capacity]]

\* A sequence of bytes as the slots that hold them.
Stored(q) == [k \in 1 .. Len(q) |-> Some(q[k])]

\* The slots that differ between two buffers and are empty (eo = TRUE) or
\* occupied (eo = FALSE) in the first.
Flipped(before, after, eo) ==
    {k \in DOMAIN before.buffer :
        /\ (before.buffer[k] = None) = eo
        /\ (after.buffer[k] = None) = ~eo}

Built == pc # "aborted"

\* C1: in every state of a built buffer, the states between the iterations of
\* extend and drain included, 0 <= len() <= capacity.
C1_CapacityInvariant ==
    Built => (0 <= len(rb) /\ len(rb) <= rb.capacity)

\* extend has filled the largest buffer and is still inside its loop.
C1_Witness ==
    /\ pc = "extend"
    /\ i > 0
    /\ rb.capacity = MaxCapacity
    /\ len(rb) = rb.capacity
    /\ len(old) < rb.capacity

\* C2: the buffer refines the bounded FIFO queue Q: in every state the slots
\* head .. head+size-1 hold Q in order, a pop that returns a value returns the
\* head of Q, and the values drain has collected so far are the heads it took
\* off Q, in order.
C2_RefinesQueue ==
    Built =>
        /\ Slots(rb) = Stored(Q)
        /\ (pc = "returned" /\ op = "pop" /\ ret # None)
              => (Qold # << >> /\ ret = Some(Head(Qold)) /\ Q = Tail(Qold))
        /\ (op = "drain" /\ pc \in {"drain", "returned"})
              => result \o Q = Qold

\* A pop has returned a value from a buffer whose contents wrap around the end
\* of the storage and hold two different values.
C2_Witness ==
    /\ pc = "returned"
    /\ op = "pop"
    /\ ret # None
    /\ rb.size >= 2
    /\ rb.tail < rb.head
    /\ Q[1] # Q[2]

\* C3: a push on a full buffer returns the failure and leaves storage, head,
\* tail and size as they were; the buffer it leaves is again full, so the same
\* holds of the push repeated.
C3_PushFullUnchanged ==
    (pc \in {"returned", "aborted"} /\ op = "push" /\ is_full(old))
        => (pc = "returned" /\ ret = "Err" /\ rb = old /\ is_full(rb))

\* A push was refused by a full buffer whose head is not slot 0.
C3_Witness ==
    /\ pc = "returned"
    /\ op = "push"
    /\ is_full(old)
    /\ old.head > 0
    /\ ret = "Err"

\* C4: a push on a buffer that is not full succeeds, writes the value into the
\* slot at the old tail, advances tail by one modulo capacity, adds one to
\* size, leaves head and every other slot alone: exactly one slot goes from
\* empty to occupied and none the other way.
C4_PushEffect ==
    (pc \in {"returned", "aborted"} /\ op = "push" /\ ~is_full(old)) =>
        /\ pc = "returned"
        /\ ret = "Ok"
        /\ rb.buffer[old.tail] = Some(arg)
        /\ rb.tail = (old.tail + 1) % old.capacity
        /\ rb.size = old.size + 1
        /\ rb.head = old.head
        /\ rb.capacity = old.capacity
        /\ DOMAIN rb.buffer = DOMAIN old.buffer
        /\ \A k \in DOMAIN old.buffer : k # old.tail => rb.buffer[k] = old.buffer[k]
        /\ Flipped(old, rb, TRUE) = {old.tail}
        /\ Flipped(old, rb, FALSE) = {}

\* A push has written the last slot of the storage: tail has wrapped to 0.
C4_Witness ==
    /\ pc = "returned"
    /\ op = "push"
    /\ ret = "Ok"
    /\ old.capacity > 1
    /\ old.tail = old.capacity - 1
    /\ rb.tail = 0

\* C5: a pop on an empty buffer returns None and leaves storage, head, tail
\* and size as they were, so that is_empty() is true afterwards; a drain on an
\* empty buffer returns the empty sequence; neither aborts.
C5_EmptyPopDrain ==
    (pc \in {"returned", "aborted"} /\ op \in {"pop", "drain"} /\ is_empty(old)) =>
        /\ pc = "returned"
        /\ rb = old
        /\ is_empty(rb)
        /\ op = "pop" => ret = None
        /\ op = "drain" => ret = << >>

\* A pop has returned from a buffer that earlier calls had emptied.
C5_Witness ==
    /\ pc = "returned"
    /\ op = "pop"
    /\ is_empty(old)
    /\ old.head > 0
    /\ ret = None

\* C6: a pop on a buffer that is not empty returns the value stored in the
\* slot at the old head, empties that slot, advances head by one modulo
\* capacity, takes one from size, leaves tail and every other slot alone:
\* exactly one slot goes from occupied to empty and none the other way.
C6_PopEffect ==
    (pc \in {"returned", "aborted"} /\ op = "pop" /\ ~is_empty(old)) =>
        /\ pc = "returned"
        /\ ret # None
        /\ ret = old.buffer[old.head]
        /\ rb.buffer[old.head] = None
        /\ rb.head = (old.head + 1) % old.capacity
        /\ rb.size = old.size - 1
        /\ rb.tail = old.tail
        /\ rb.capacity = old.capacity
        /\ DOMAIN rb.buffer = DOMAIN old.buffer
        /\ \A k \in DOMAIN old.buffer : k # old.head => rb.buffer[k] = old.buffer[k]
        /\ Flipped(old, rb, FALSE) = {old.head}
        /\ Flipped(old, rb, TRUE) = {}

\* A pop has read the last slot of the storage: head has wrapped to 0.
C6_Witness ==
    /\ pc = "returned"
    /\ op = "pop"
    /\ ret # None
    /\ old.capacity > 1
    /\ old.head = old.capacity - 1
    /\ rb.head = 0

\* C7: extend(data) returns min(len(data), capacity - len before), appends
\* the first that many bytes of data in order behind the contents, leaves the
\* contents that were there and head alone, leaves the buffer full when data
\* had at least as many bytes as there was room, and returns 0 and changes
\* nothing when the buffer was full already.
C7_ExtendEffect ==
    (pc \in {"returned", "aborted"} /\ op = "extend") =>
        LET free == old.capacity - len(old)
            n == Min(Len(arg), free)
        IN  /\ pc = "returned"
            /\ ret = n
            /\ Slots(rb) = Slots(old) \o Stored(SubSeq(arg, 1, n))
            /\ len(rb) = len(old) + n
            /\ rb.head = old.head
            /\ rb.capacity = old.capacity
            /\ Len(arg) >= free => is_full(rb)
            /\ is_full(old) => (ret = 0 /\ rb = old)

\* extend has taken a part of data, not all of it, into a buffer that held
\* something already, and the bytes went in around the end of the storage.
C7_Witness ==
    /\ pc = "returned"
    /\ op = "extend"
    /\ 0 < ret
    /\ ret < Len(arg)
    /\ len(old) > 0
    /\ rb.tail < old.tail
    /\ arg[1] # arg[2]

\* C8: drain(count) returns the min(count, len before) oldest bytes, oldest
\* first, leaves len() smaller by that many and the rest of the contents in
\* their order; with count at least len before, the result is not padded and
\* the buffer is left empty.
C8_DrainEffect ==
    (pc \in {"returned", "aborted"} /\ op = "drain") =>
        LET n == Min(arg, len(old))
        IN  /\ pc = "returned"
            /\ Len(ret) = n
            /\ Stored(ret) = SubSeq(Slots(old), 1, n)
            /\ len(rb) = len(old) - n
            /\ Slots(rb) = SubSeq(Slots(old), n + 1, len(old))
            /\ arg >= len(old) => (is_empty(rb) /\ Len(ret) = len(old))

\* drain was asked for more than the buffer held, and what it held lay around
\* the end of the storage.
C8_Witness ==
    /\ pc = "returned"
    /\ op = "drain"
    /\ arg > len(old)
    /\ len(old) >= 2
    /\ old.tail <= old.head
    /\ old.head > 0
    /\ ret[1] # ret[2]

\* C9: bytes v1 .. vn, n <= capacity, pushed one push call each into an empty
\* buffer with nothing but pushes between: every push succeeds, and drain(n)
\* returns << v1, ..., vn >> and leaves the buffer empty.
C9_RoundTrip ==
    /\ (pc \in {"returned", "aborted"} /\ op = "push" /\ run # NoRun)
          => (pc = "returned" /\ ret = "Ok")
    /\ (pc \in {"returned", "aborted"} /\ op = "drain" /\ run # NoRun /\ arg = Len(run[1]))
          => (pc = "returned" /\ ret = run[1] /\ is_empty(rb))

\* As many bytes as the buffer holds, not all the same, were pushed into a
\* buffer emptied with its head away from slot 0, and drained.
C9_Witness ==
    /\ pc = "returned"
    /\ op = "drain"
    /\ run # NoRun
    /\ arg = Len(run[1])
    /\ arg = old.capacity
    /\ arg >= 2
    /\ old.head > 0
    /\ run[1][1] # run[1][2]

\* C10: in every state of a built buffer head and tail are indices of the
\* storage, size = (tail - head + capacity) % capacity while size < capacity,
\* and head = tail when size = capacity.
C10_IndexInvariant ==
    Built =>
        /\ 0 <= rb.head /\ rb.head < rb.capacity
        /\ 0 <= rb.tail /\ rb.tail < rb.capacity
        /\ rb.size < rb.capacity
              => rb.size = (rb.tail - rb.head + rb.capacity) % rb.capacity
        /\ rb.size = rb.capacity => rb.head = rb.tail

\* Neither empty nor full, with the tail wrapped around below the head.
C10_Witness ==
    /\ Built
    /\ 0 < rb.size
    /\ rb.size < rb.capacity
    /\ rb.tail < rb.head

\* C11: in every state of a built buffer each of the size slots at head,
\* head+1, ..., head+size-1 (mod capacity) holds a byte and every other slot
\* holds None: a popped slot is cleared, no stale byte is left behind.
C11_SlotOccupancy ==
    Built =>
        LET live == {(rb.head + k) % rb.capacity : k \in 0 .. rb.size - 1}
        IN  /\ Cardinality(live) = rb.size
            /\ \A k \in DOMAIN rb.buffer :
                  IF k \in live THEN rb.buffer[k] # None ELSE rb.buffer[k] = None

\* A pop has just vacated a slot that had held a byte, and the bytes that are
\* left lie around the end of the storage.
C11_Witness ==
    /\ pc = "returned"
    /\ op = "pop"
    /\ ret # None
    /\ rb.size >= 2
    /\ rb.head + rb.size > rb.capacity
    /\ rb.buffer[old.head] = None

\* C12: wrap-around.  A buffer of any capacity n is filled with n bytes,
\* drain(k) takes the k oldest, extend of k new bytes returns k and writes
\* them into the k slots just freed, and drain(n) returns the n - k old bytes
\* left followed by the k new ones; with n = 3 and k = 2 the four calls return
\* 3, << 1, 2 >>, 2, << 3, 4, 5 >>.
C12_WrapAround ==
    caller.name = "wrap" =>
        LET n == caller.start.capacity
            k == caller.k
            want == << n, Range(1, k), k, Range(k + 1, n + k) >>
            got == caller.outs
        IN  /\ pc # "aborted"
            /\ Len(got) <= 4
            /\ \A j \in 1 .. Len(got) : got[j] = want[j]
            /\ (Len(got) = 3 /\ pc = "idle") =>
                  \A j \in 0 .. k - 1 :
                      rb.buffer[(caller.start.head + j) % n] = Some(n + 1 + j)
            /\ (n = 3 /\ k = 2 /\ Len(got) = 4)
                  => got = << 3, << 1, 2 >>, 2, << 3, 4, 5 >> >>

\* The script of the test has run to its end: capacity 3, k = 2, from a new
\* buffer.
C12_Witness ==
    /\ caller.name = "wrap"
    /\ caller.start.capacity = 3
    /\ caller.start.head = 0
    /\ caller.k = 2
    /\ caller.todo = << >>
    /\ pc = "idle"
    /\ caller.outs = << 3, << 1, 2 >>, 2, << 3, 4, 5 >> >>

\* C13: new(capacity) with capacity > 0 yields a buffer of exactly capacity
\* slots, all empty, with head = tail = size = 0, is_empty() true and len()
\* 0; new(0) fails and yields no buffer; no built buffer has capacity 0.
C13_Construction ==
    /\ op = "new" =>
          IF arg > 0
          THEN /\ pc = "returned"
               /\ rb.capacity = arg
               /\ DOMAIN rb.buffer = 0 .. arg - 1
               /\ Cardinality(DOMAIN rb.buffer) = arg
               /\ \A k \in DOMAIN rb.buffer : rb.buffer[k] = None
               /\ rb.head = 0
               /\ rb.tail = 0
               /\ rb.size = 0
               /\ is_empty(rb)
               /\ len(rb) = 0
          ELSE /\ pc = "aborted"
               /\ rb = NoBuffer
    /\ Built => rb.capacity > 0

\* new has returned a buffer of three slots.
C13_Witness ==
    /\ op = "new"
    /\ pc = "returned"
    /\ arg = 3
    /\ Cardinality(DOMAIN rb.buffer) = 3
    /\ is_empty(rb)

\* C14: a buffer of capacity 1 has head = 0 and tail = 0 and is empty or full
\* in every state; a push on the empty buffer succeeds and leaves it full, a
\* push on the full buffer fails, a pop on the full buffer returns the byte
\* stored and leaves it empty; the same again the next time round.
C14_CapacityOne ==
    /\ (Built /\ rb.capacity = 1) =>
          /\ rb.head = 0
          /\ rb.tail = 0
          /\ is_empty(rb) \/ is_full(rb)
          /\ (pc = "returned" /\ op = "push" /\ is_empty(old))
                => (ret = "Ok" /\ is_full(rb) /\ rb.buffer[0] = Some(arg))
          /\ (pc = "returned" /\ op = "push" /\ is_full(old))
                => (ret = "Err" /\ is_full(rb) /\ rb = old)
          /\ (pc = "returned" /\ op = "pop" /\ is_full(old))
                => (ret = old.buffer[0] /\ ret = Some(Qold[1]) /\ is_empty(rb))
    /\ caller.name = "edge" =>
          LET want == << "Ok", "Err", Some(1), "Ok", "Err", Some(3) >>
          IN  /\ pc # "aborted"
              /\ \A j \in 1 .. Len(caller.outs) : caller.outs[j] = want[j]

\* The second round of push, refused push and pop has ended.
C14_Witness ==
    /\ caller.name = "edge"
    /\ caller.todo = << >>
    /\ pc = "idle"
    /\ Len(caller.outs) = 6
    /\ caller.outs[6] = Some(3)
    /\ rb.capacity = 1
    /\ is_empty(rb)

\* C15: no call changes capacity or the number of slots; is_empty(),
\* is_full() and len() change nothing and return size = 0, size = capacity
\* and size; is_empty() and is_full() are never both true.
C15_FrameAndQueries ==
    /\ (Built /\ op \notin {"new", "none"}) =>
          /\ rb.capacity = old.capacity
          /\ DOMAIN rb.buffer = DOMAIN old.buffer
    /\ (op \in {"is_empty", "is_full", "len"}) => (pc = "returned" /\ rb = old)
    /\ op = "is_empty" => ret = (old.size = 0)
    /\ op = "is_full" => ret = (old.size = old.capacity)
    /\ op = "len" => ret = old.size
    /\ Built => ~(is_empty(rb) /\ is_full(rb))

\* is_empty() has answered FALSE on a full buffer.
C15_Witness ==
    /\ pc = "returned"
    /\ op = "is_empty"
    /\ ret = FALSE
    /\ old.size = old.capacity
    /\ old.capacity = MaxCapacity

\* C16: pop returns None exactly when size was 0 before the call: the slot at
\* head of a buffer that is not empty is never None, so pop never takes one
\* from size while returning nothing, and drain stops before count only on an
\* empty buffer.
C16_PopNoneIffEmpty ==
    /\ (Built /\ rb.size > 0) => rb.buffer[rb.head] # None
    /\ (pc = "returned" /\ op = "pop") =>
          /\ (ret = None) <=> (old.size = 0)
          /\ ret = None => rb.size = old.size
    /\ (op = "drain" /\ pc \in {"drain", "returned"}) =>
          /\ Len(result) = old.size - rb.size
          /\ (pc = "returned" /\ Len(ret) < arg) => (is_empty(rb) /\ Len(ret) = old.size)

\* drain has stopped before count, on the pop that found the buffer empty,
\* after it had taken out what the buffer held.
C16_Witness ==
    /\ pc = "returned"
    /\ op = "drain"
    /\ old.size >= 2
    /\ Len(ret) = old.size
    /\ Len(ret) < arg
    /\ i = Len(ret) + 1

\* C17: no call aborts once the buffer is built: the slot a push writes (tail,
\* when not full) and the slot a pop reads (head, when not empty) are indices
\* below the length of the storage, size is taken from only when it is at
\* least 1 and added to only when it is below capacity, and so stays within
\* 0 .. capacity.
C17_NoAbort ==
    /\ pc = "aborted" => op = "new"
    /\ Built =>
          /\ Cardinality(DOMAIN rb.buffer) = rb.capacity
          /\ ~is_full(rb) => (in_bounds(rb, rb.tail) /\ rb.tail < Cardinality(DOMAIN rb.buffer))
          /\ ~is_empty(rb) => (in_bounds(rb, rb.head) /\ rb.head < Cardinality(DOMAIN rb.buffer))
          /\ 0 <= rb.size
          /\ rb.size <= rb.capacity
    /\ (pc = "returned" /\ op = "push" /\ rb.size # old.size)
          => (old.size < old.capacity /\ rb.size = old.size + 1)
    /\ (pc = "returned" /\ op = "pop" /\ rb.size # old.size)
          => (old.size >= 1 /\ rb.size = old.size - 1)

\* A push has written the last slot of the largest storage and filled it.
C17_Witness ==
    /\ pc = "returned"
    /\ op = "push"
    /\ ret = "Ok"
    /\ old.capacity = MaxCapacity
    /\ old.tail = old.capacity - 1
    /\ rb.size = rb.capacity

\* C18: every call ends.  extend makes at most len(data) pushes and none
\* after the first push that is refused; drain makes at most count pops and
\* none after the first pop that returns None; each loop that has started
\* returns.
C18_Attempts ==
    /\ (op = "extend" /\ pc \in {"extend", "returned"}) =>
          /\ i <= Len(arg)
          /\ count <= i
          /\ pc = "extend" => i = count
          /\ pc = "returned" => (i = count \/ (i = count + 1 /\ is_full(rb)))
          /\ pc = "returned" => (i = Len(arg) \/ is_full(rb))
    /\ (op = "drain" /\ pc \in {"drain", "returned"}) =>
          /\ i <= arg
          /\ Len(result) <= i
          /\ pc = "drain" => i = Len(result)
          /\ pc = "returned" => (i = Len(result) \/ (i = Len(result) + 1 /\ is_empty(rb)))
          /\ pc = "returned" => (i = arg \/ is_empty(rb))

C18_Terminates ==
    /\ []C18_Attempts
    /\ (pc \in {"extend", "drain"}) ~> (pc \in {"returned", "aborted"})

\* extend has returned on the push that was refused, with bytes of data left
\* that it did not try.
C18_Witness ==
    /\ pc = "returned"
    /\ op = "extend"
    /\ i = count + 1
    /\ count >= 1
    /\ i < Len(arg)

\* C19: backpressure recovery.  From any full buffer, once a push has been
\* refused, one pop is enough for the next push to succeed; its byte goes into
\* the slot just vacated and comes out of pop only after every byte that was
\* in the buffer before it, and the byte of the refused push never comes out.
C19_Recovery ==
    caller.name = "recovery" =>
        LET was == Slots(caller.start)
            want == << "Err", was[1], "Ok" >> \o Tail(was) \o << Some(NewByte) >>
            got == caller.outs
        IN  /\ pc # "aborted"
            /\ Len(got) <= Len(want)
            /\ \A j \in 1 .. Len(got) : got[j] = want[j]
            /\ (Len(got) = 3 /\ pc = "idle") =>
                  /\ is_full(rb)
                  /\ rb.buffer[caller.start.head] = Some(NewByte)
                  /\ Slots(rb) = Tail(was) \o << Some(NewByte) >>
            /\ (caller.todo = << >> /\ pc = "idle") => (Len(got) = Len(want) /\ is_empty(rb))

\* The script has run to its end on a buffer of three bytes, not all the
\* same, whose head was not slot 0: the last pop has returned the new byte.
C19_Witness ==
    /\ caller.name = "recovery"
    /\ caller.todo = << >>
    /\ pc = "idle"
    /\ caller.start.capacity = 3
    /\ caller.start.head > 0
    /\ caller.start.buffer[0] # caller.start.buffer[1]
    /\ Len(caller.outs) = 6
    /\ caller.outs[6] = Some(NewByte)

====
